---- MODULE Spec2Model ----
(***************************************************************************)
(* Model of lutris/installer/unattended_install.py: class UnattendedInstall *)
(* The orchestrator is modelled with its call stack: the interpreter calls  *)
(* the orchestrator synchronously, the orchestrator calls back into the     *)
(* interpreter (file_selected, _iter_commands, iter_game_files), and the    *)
(* interpreter may issue its next request from inside such a call.          *)
(* The interpreter, the transport (Downloader), system.path_exists and      *)
(* jobs.AsyncCall are collaborators outside this file; they are modelled as *)
(* the environment, from their interfaces.                                  *)
(* The interpreter issues the requests the adopted script calls for (one    *)
(* file request per sentinel requirement, one download per other file, one  *)
(* menu request per input_menu step), in any order and at any nesting.      *)
(* An uncaught Python exception ends the run with pc = "raised".            *)
(***************************************************************************)
EXTENDS Integers, Sequences, FiniteSets, TLC

\* ---------------------------------------------------------------- bounds
\* file requirements of a script, and how many of them are downloads
MaxFiles == 2
MaxDownloads == 1
\* steps of a script's installer sequence
MaxSteps == 2
\* supplied file paths and menu answers: one more than a script can need
MaxPaths == 3
MaxOptions == 3
\* passes of one download's polling loop
MaxPolls == 2
\* progress values below 1.0 that the transport reports
ProgressSteps == 1

\* ---------------------------------------------------------------- values
OptionIds == {"a", "b"}
PathKinds == {"file", "dir", "missing"}
MandatoryFields == {"name", "runner", "version"}

SeqUpTo(S, n) == UNION {[1..k -> S] : k \in 0..n}

\* A supplied path: its position in the caller's list names it.
PathLists == UNION {{[i \in 1..n |-> [name |-> i, kind |-> ks[i]]] : ks \in [1..n -> PathKinds]} : n \in 0..MaxPaths}

\* script["script"]["files"]: absent, or a sequence of requirements, each a
\* URI or the N/A sentinel.
NumberOf(seq, x) == Cardinality({i \in 1..Len(seq) : seq[i] = x})

FileSections == {[present |-> FALSE, items |-> <<>>]} \cup {[present |-> TRUE, items |-> fs] : fs \in {f \in SeqUpTo({"NA", "URI"}, MaxFiles) : NumberOf(f, "URI") <= MaxDownloads}}

\* script["script"]["installer"]: steps; an input_menu step carries options.
Steps == {[op |-> "execute", options |-> <<>>], [op |-> "input_menu", options |-> <<"a">>], [op |-> "input_menu", options |-> <<"a", "b">>]}

\* A script lacks at most one mandatory field.
FieldSets == {MandatoryFields} \cup {MandatoryFields \ {f} : f \in MandatoryFields}

Scripts == [fields : FieldSets, files : FileSections, installer : SeqUpTo(Steps, MaxSteps)]

\* What read_script / fetch_script hands to on_scripts_obtained: None, one
\* script (a dict), or a list of scripts.
NoScripts == [form |-> "none", items |-> <<>>]
Acquired == {NoScripts, [form |-> "list", items |-> <<>>]} \cup {[form |-> f, items |-> <<s>>] : f \in {"dict", "list"}, s \in Scripts} \cup {[form |-> "list", items |-> <<s, s>>] : s \in Scripts}

Msg(kind, args) == [kind |-> kind, args |-> args]

VARIABLES installer_file, scripts, binary_path, install_options, install_path, script, verdict, interpreter, bin_path_coutner, options_coutner, downloader, out, pc, stack, child, stages, file_reqs, selected, menu_reqs, resumes, dl, dl_count, finished

inputs == <<installer_file, binary_path, install_options>>
cursors == <<bin_path_coutner, options_coutner>>
ghosts == <<file_reqs, selected, menu_reqs, resumes, dl, dl_count, finished>>
vars == <<installer_file, scripts, binary_path, install_options, install_path, script, verdict, interpreter, bin_path_coutner, options_coutner, downloader, out, pc, stack, child, stages, file_reqs, selected, menu_reqs, resumes, dl, dl_count, finished>>

NoInterpreter == [made |-> FALSE, creates_game_folder |-> FALSE, target_path |-> "None", user_inputs |-> <<>>, abort_current_task |-> "None"]
NoDownloader == [state |-> "None", progress |-> 0, error |-> "None"]
NoScript == [fields |-> {}, files |-> [present |-> FALSE, items |-> <<>>], installer |-> <<>>]
NoDownload == [callback |-> "None", cb_count |-> 0, continued |-> FALSE, reports |-> <<>>, polls |-> 0]
NoChild == [spawned |-> FALSE, pc |-> "None", quit |-> 0]

\* What the first acquired script needs: sentinel files and menu steps.
NeededFiles(sc) == IF sc.items = <<>> THEN 0 ELSE NumberOf(sc.items[1].files.items, "NA")

NeededOptions(sc) == IF sc.items = <<>> THEN 0 ELSE Cardinality({i \in 1..Len(sc.items[1].installer) : sc.items[1].installer[i].op = "input_menu"})

\* State on entry to the constructor body, after lines 33-45.  The caller
\* supplies up to one path and one answer more than the script needs.
Init ==
    /\ installer_file \in BOOLEAN
    /\ scripts \in Acquired
    /\ binary_path \in {bp \in PathLists : Len(bp) <= NeededFiles(scripts) + 1}
    /\ install_options \in {opts \in SeqUpTo(OptionIds, MaxOptions) : Len(opts) <= NeededOptions(scripts) + 1}
    /\ install_path \in {"None", "given"}
    /\ script = NoScript
    /\ verdict = <<>>
    /\ interpreter = NoInterpreter
    /\ bin_path_coutner = 0
    /\ options_coutner = 0
    /\ downloader = NoDownloader
    /\ out = [printed |-> 0, errors |-> <<>>, quit |-> 0]
    /\ pc = "new"
    /\ stack = <<>>
    /\ child = NoChild
    /\ stages = <<>>
    /\ file_reqs = 0
    /\ selected = <<>>
    /\ menu_reqs = <<>>
    /\ resumes = <<>>
    /\ dl = NoDownload
    /\ dl_count = 0
    /\ finished = FALSE

\* ------------------------------------------------ collaborators' functions
\* system.path_exists(f) and os.path.isfile(f), by the kind of the path.
path_exists(p) == p.kind \in {"file", "dir"}

isfile_or_dir(p) == p.kind \in {"file", "dir"}

isfile(p) == p.kind = "file"

\* ------------------------------------------------ reporting, lines 172-182
\* on_install_error(message): status line, error log, quit_callback().
on_install_error(o, message) == [printed |-> o.printed + 1, errors |-> Append(o.errors, message), quit |-> o.quit + 1]

\* on_install_finished(): status line, debug log, quit_callback().
on_install_finished(o) == [printed |-> o.printed + 1, errors |-> o.errors, quit |-> o.quit + 1]

\* self._print(self.commandline, text)
print_line(o) == [printed |-> o.printed + 1, errors |-> o.errors, quit |-> o.quit]

\* ------------------------------------------------ validate_scripts, 75-115
Pass(o) == [verdict |-> 0, out |-> o]

Fail(o, message) == [verdict |-> -1, out |-> on_install_error(o, message)]

\* line 87: the file requirements whose value holds the N/A sentinel
req_files(s) == SelectSeq(s.files.items, LAMBDA f : f = "NA")

\* line 101: the installer steps that are input_menu steps
menus(s) == SelectSeq(s.installer, LAMBDA step : step.op = "input_menu")

\* lines 80-83: the mandatory fields
check_fields_but_version(s, o) == IF {"name", "runner"} \subseteq s.fields THEN Pass(o) ELSE Fail(o, Msg("Invalid script", <<>>))

check_fields(s, o) == IF MandatoryFields \subseteq s.fields THEN Pass(o) ELSE Fail(o, Msg("Invalid script", <<>>))

FirstMissing(bp) == CHOOSE i \in 1..Len(bp) : ~path_exists(bp[i]) /\ \A j \in 1..(i - 1) : path_exists(bp[j])

\* lines 86-97: number and existence of the supplied files
check_files_at_least(s, bp, o) ==
    IF s.files.present /\ Len(req_files(s)) # 0
    THEN IF Len(req_files(s)) > Len(bp)
         THEN Fail(o, Msg("Number of provided files is wrong", <<Len(bp), Len(req_files(s))>>))
         ELSE IF \E i \in 1..Len(bp) : ~path_exists(bp[i])
              THEN Fail(o, Msg("File does not exist", <<bp[FirstMissing(bp)].name>>))
              ELSE Pass(o)
    ELSE Pass(o)

check_files(s, bp, o) ==
    IF s.files.present /\ Len(req_files(s)) # 0
    THEN IF Len(req_files(s)) # Len(bp)
         THEN Fail(o, Msg("Number of provided files is wrong", <<Len(bp), Len(req_files(s))>>))
         ELSE IF \E i \in 1..Len(bp) : ~path_exists(bp[i])
              THEN Fail(o, Msg("File does not exist", <<bp[FirstMissing(bp)].name>>))
              ELSE Pass(o)
    ELSE Pass(o)

\* line 110: the answer is a key of one of the menu's options
option_of_any_menu(answer, menu) == answer \in OptionIds

option_available(answer, menu) == \E j \in 1..Len(menu.options) : menu.options[j] = answer

FirstBadOption(s, opts) == CHOOSE i \in 1..Len(menus(s)) : ~option_available(opts[i], menus(s)[i]) /\ \A j \in 1..(i - 1) : option_available(opts[j], menus(s)[j])

\* lines 101-114: number and content of the supplied menu answers
check_menus(s, opts, o) ==
    IF Len(menus(s)) # 0
    THEN IF Len(menus(s)) # Len(opts)
         THEN Fail(o, Msg("Number of provided options is wrong", <<Len(opts), Len(menus(s))>>))
         ELSE IF \E i \in 1..Len(menus(s)) : ~option_available(opts[i], menus(s)[i])
              THEN Fail(o, Msg("Option not available for menu", <<opts[FirstBadOption(s, opts)], FirstBadOption(s, opts) - 1>>))
              ELSE Pass(o)
    ELSE Pass(o)

\* The three checks in order, the first failure returning -1.  Lines 78-79
\* only default description and notes to "", which nothing here reads.
validate_scripts(s, bp, opts, o) ==
    LET r1 == check_fields(s, o)
        r2 == check_files(s, bp, r1.out)
        r3 == check_menus(s, opts, r2.out)
    IN  IF r1.verdict # 0 THEN r1 ELSE IF r2.verdict # 0 THEN r2 ELSE r3

\* ------------------------------------------------ nested install, 127-129
\* UnattendedInstall(game_slug=ex.slug): every other argument keeps its
\* default None, so installer_file, cmd_print and quit_callback are None.
\* system.path_exists(None) is false (or raises); line 50 then calls
\* self._print, which is None: TypeError, before AsyncCall is reached.
\* a nested install whose constructor returns, its fetch pending
NestedInstall_returns == [spawned |-> TRUE, pc |-> "fetching", quit |-> 0]

NestedInstall ==
    LET cmd_print == "None"
        nested_installer_file == "None"
    IN  IF nested_installer_file # "None"
        THEN [spawned |-> TRUE, pc |-> "reading", quit |-> 0]
        ELSE IF cmd_print = "None"
             THEN [spawned |-> TRUE, pc |-> "raised", quit |-> 0]
             ELSE [spawned |-> TRUE, pc |-> "fetching", quit |-> 0]

\* ------------------------------------------------ select_install_folder
\* lines 135-141: the target path, when the script creates its game folder
chosen_install_path(cgf) == IF cgf /\ install_path = "None" THEN "default" ELSE install_path

NewInterpreter(cgf) == [made |-> TRUE, creates_game_folder |-> cgf, target_path |-> IF cgf THEN chosen_install_path(cgf) ELSE "None", user_inputs |-> <<>>, abort_current_task |-> "task"]

\* lines 133-147 up to the call of check_runner_install, which hands control
\* to the interpreter.
select_install_folder(cgf, o) ==
    /\ install_path' = chosen_install_path(cgf)
    /\ out' = IF cgf THEN print_line(o) ELSE o
    /\ pc' = "interp"
    /\ stack' = <<"check_runner_install">>

\* ------------------------------------------------ prepare_install, 117-131
\* st: the stages entered so far.  The script is a non-empty mapping here, so
\* the test of line 120 is false.
prepare_install(s, o, st) ==
    \/ \E cgf \in BOOLEAN :
          /\ interpreter' = NewInterpreter(cgf)
          /\ stages' = st \o <<"prepare_install", "ScriptInterpreter", "select_install_folder", "check_runner_install">>
          /\ select_install_folder(cgf, o)
          /\ UNCHANGED child
    \/ \* MissingGameDependency: the nested constructor runs inside the
       \* handler (127-129).  Its exception leaves prepare_install; were it
       \* to return, line 131 enters select_install_folder, where line 135
       \* reads self.interpreter, still None, and raises.
       /\ child' = NestedInstall
       /\ stages' = st \o <<"prepare_install", "UnattendedInstall">> \o (IF NestedInstall.pc = "raised" THEN <<>> ELSE <<"select_install_folder">>)
       /\ pc' = "raised"
       /\ out' = o
       /\ UNCHANGED <<install_path, interpreter, stack>>
    \/ \* any other error of the constructor is not caught
       /\ stages' = st \o <<"prepare_install">>
       /\ pc' = "raised"
       /\ out' = o
       /\ UNCHANGED <<install_path, interpreter, stack, child>>

\* ------------------------------------------------ on_scripts_obtained, 59-73
\* `not scripts` (line 60): None or an empty list
not_scripts(sc) == sc.items = <<>>

after_line_61(sc, o) == IF not_scripts(sc) THEN on_install_error(o, Msg("No install script found", <<>>)) ELSE o

after_line_65(sc, o) == IF sc.form = "list" /\ Len(sc.items) # 1 THEN on_install_error(after_line_61(sc, o), Msg("Please provide single installer", <<>>)) ELSE after_line_61(sc, o)

on_scripts_obtained(o) ==
    /\ scripts' = NoScripts
    /\ UNCHANGED <<inputs, cursors, downloader, ghosts>>
    /\ IF scripts.items = <<>>
       THEN \* scripts[0] raises IndexError (line 67); None raises in line 79
            /\ pc' = "raised"
            /\ out' = after_line_65(scripts, o)
            /\ stages' = IF scripts.form = "none" THEN Append(stages, "validate_scripts") ELSE stages
            /\ UNCHANGED <<install_path, script, verdict, interpreter, stack, child>>
       ELSE LET s == scripts.items[1]
                v == validate_scripts(s, binary_path, install_options, after_line_65(scripts, o))
            IN  /\ script' = s
                /\ verdict' = <<v.verdict>>
                /\ IF v.verdict # 0
                   THEN /\ pc' = "done"
                        /\ out' = v.out
                        /\ stages' = Append(stages, "validate_scripts")
                        /\ UNCHANGED <<install_path, interpreter, stack, child>>
                   ELSE prepare_install(s, v.out, Append(stages, "validate_scripts"))

\* ------------------------------------------------ __init__, 47-57
\* The installer file exists: read_script and on_scripts_obtained, inline.
ReadLocalScript ==
    /\ pc = "new"
    /\ installer_file
    /\ on_scripts_obtained(out)

\* No installer file: status line, then AsyncCall(fetch_script, ...) returns.
FetchScript ==
    /\ pc = "new"
    /\ ~installer_file
    /\ pc' = "fetching"
    /\ out' = print_line(out)
    /\ UNCHANGED <<inputs, scripts, install_path, script, verdict, interpreter, cursors, downloader, stack, child, stages, ghosts>>

\* AsyncCall delivers the fetched scripts to on_scripts_obtained.
FetchCallback ==
    /\ pc = "fetching"
    /\ on_scripts_obtained(out)

\* ------------------------------------------------ the interpreter's requests
\* The interpreter has control (pc = "interp") in the call on top of the
\* stack.  It issues one request per sentinel file requirement, one download
\* per other file requirement and one menu request per input_menu step of the
\* script, in an order of its own, and calls on_install_finished once.
Full == ProgressSteps

num_uri(s) == Len(SelectSeq(s.files.items, LAMBDA f : f = "URI"))

CanAskFile == pc = "interp" /\ ~finished /\ file_reqs < Len(req_files(script))

CanAskMenu == pc = "interp" /\ ~finished /\ Len(menu_reqs) < Len(menus(script))

CanDownload == pc = "interp" /\ ~finished /\ dl_count < num_uri(script)

\* line 198
file_cursor_after_twice(c) == c + 2

file_cursor_after(c) == c + 1

\* line 189
menu_cursor_after(c) == c + 1

\* The alias of the n-th input_menu step: its place in the installer sequence.
RECURSIVE menu_place(_, _, _)
menu_place(steps, n, from) == IF from > Len(steps) THEN 0 ELSE IF steps[from].op = "input_menu" THEN (IF n = 1 THEN from ELSE menu_place(steps, n - 1, from + 1)) ELSE menu_place(steps, n, from + 1)

\* line 188: the entry appended to interpreter.user_inputs
menu_entry_first(alias, opts, c) == [alias |-> alias, value |-> opts[1]]

menu_entry(alias, opts, c) == [alias |-> alias, value |-> opts[c + 1]]

\* ask_user_for_file, lines 192-197: up to the call of file_selected
ask_user_for_file ==
    /\ CanAskFile
    /\ file_reqs' = file_reqs + 1
    /\ IF bin_path_coutner >= Len(binary_path)
       THEN \* IndexError at line 193
            /\ pc' = "raised"
            /\ UNCHANGED <<out, selected, stack>>
       ELSE IF ~isfile(binary_path[bin_path_coutner + 1])
            THEN /\ out' = on_install_error(out, Msg("is not a file", <<binary_path[bin_path_coutner + 1].name>>))
                 /\ UNCHANGED <<pc, selected, stack>>
            ELSE /\ selected' = Append(selected, [req |-> file_reqs + 1, path |-> binary_path[bin_path_coutner + 1]])
                 /\ stack' = Append(stack, "file_selected")
                 /\ UNCHANGED <<pc, out>>
    /\ UNCHANGED <<inputs, scripts, install_path, script, verdict, interpreter, cursors, downloader, child, stages, menu_reqs, resumes, dl, dl_count, finished>>

\* input_menu, lines 188-190: up to the call of _iter_commands
serve_input_menu(alias) ==
    /\ menu_reqs' = Append(menu_reqs, alias)
    /\ IF options_coutner >= Len(install_options)
       THEN \* IndexError at line 188
            /\ pc' = "raised"
            /\ UNCHANGED <<interpreter, options_coutner, resumes, stack>>
       ELSE /\ interpreter' = [interpreter EXCEPT !.user_inputs = Append(@, menu_entry(alias, install_options, options_coutner))]
            /\ options_coutner' = menu_cursor_after(options_coutner)
            /\ resumes' = Append(resumes, [recorded |-> Len(interpreter.user_inputs) + 1, cursor |-> menu_cursor_after(options_coutner)])
            /\ stack' = Append(stack, "_iter_commands")
            /\ UNCHANGED pc
    /\ UNCHANGED <<inputs, scripts, install_path, script, verdict, bin_path_coutner, downloader, out, child, stages, file_reqs, selected, dl, dl_count, finished>>

\* input_menu (184-190), called for the next input_menu step of the script
input_menu(alias) ==
    /\ CanAskMenu
    /\ alias = menu_place(script.installer, Len(menu_reqs) + 1, 1)
    /\ serve_input_menu(alias)

\* input_menu (184-190), called once more than the script has input_menu
\* steps: a request that validate_scripts did not count.
unscripted_input_menu(alias) ==
    /\ pc = "interp"
    /\ ~finished
    /\ Len(menu_reqs) = Len(menus(script))
    /\ alias = Len(script.installer) + 1
    /\ serve_input_menu(alias)

\* The interpreter reports the end of the install: on_install_finished.
InterpreterFinishes ==
    /\ pc = "interp"
    /\ ~finished
    /\ finished' = TRUE
    /\ out' = on_install_finished(out)
    /\ UNCHANGED <<inputs, scripts, install_path, script, verdict, interpreter, cursors, downloader, pc, stack, child, stages, file_reqs, selected, menu_reqs, resumes, dl, dl_count>>

\* The interpreter returns from the call on top of the stack; the caller in
\* the orchestrator runs on: line 198 after file_selected, nothing after
\* _iter_commands (190), iter_game_files (249) and check_runner_install (144).
InterpreterReturns ==
    /\ pc = "interp"
    /\ stack # <<>>
    /\ stack' = SubSeq(stack, 1, Len(stack) - 1)
    /\ bin_path_coutner' = IF stack[Len(stack)] = "file_selected" THEN file_cursor_after(bin_path_coutner) ELSE bin_path_coutner
    /\ pc' = IF Len(stack) = 1 THEN "done" ELSE "interp"
    /\ UNCHANGED <<inputs, scripts, install_path, script, verdict, interpreter, options_coutner, downloader, out, child, stages, ghosts>>

\* check_runner_install raises ScriptingError: lines 145-147.
RunnerCheckFails ==
    /\ pc = "interp"
    /\ stack = <<"check_runner_install">>
    /\ ~finished
    /\ out' = on_install_error(out, Msg("ScriptingError", <<>>))
    /\ stack' = <<>>
    /\ pc' = "done"
    /\ UNCHANGED <<inputs, scripts, install_path, script, verdict, interpreter, cursors, downloader, child, stages, ghosts>>

\* ------------------------------------------------ start_download, 200-216
Callbacks == {"None", "returns", "raises"}

\* lines 201-210: construct and start the transport, or report and return
start_download(callback) ==
    /\ CanDownload
    /\ dl_count' = dl_count + 1
    /\ \/ \* Downloader(...) raises RuntimeError
          /\ out' = on_install_error(out, Msg("Downloading has an error", <<>>))
          /\ UNCHANGED <<pc, downloader, dl>>
       \/ /\ downloader' = [state |-> "RUNNING", progress |-> 0, error |-> "None"]
          /\ dl' = [callback |-> callback, cb_count |-> 0, continued |-> FALSE, reports |-> <<>>, polls |-> 0]
          /\ out' = print_line(out)
          /\ pc' = "loop"
    /\ UNCHANGED <<inputs, scripts, install_path, script, verdict, interpreter, cursors, stack, child, stages, file_reqs, selected, menu_reqs, resumes, finished>>

\* line 212: the loop runs on while check_progress() is not 1.0
loop_while_running(d) == d.state = "RUNNING"

loop_continues(d) == d.progress # Full

\* lines 212-213: the loop test succeeds, download_progress is called next
LoopTest ==
    /\ pc = "loop"
    /\ loop_continues(downloader)
    /\ dl.polls < MaxPolls
    /\ dl' = [dl EXCEPT !.polls = @ + 1]
    /\ pc' = "progress"
    /\ UNCHANGED <<inputs, scripts, install_path, script, verdict, interpreter, cursors, downloader, out, stack, child, stages, file_reqs, selected, menu_reqs, resumes, dl_count, finished>>

\* download_progress, lines 220-227: the failures one call reports
progress_reports(d) ==
    IF d.state \in {"CANCELLED", "ERROR"}
    THEN (IF d.state = "CANCELLED" THEN <<Msg("Download interrupted", <<>>)>> ELSE <<Msg(d.error, <<>>)>>) \o (IF d.state = "CANCELLED" THEN <<Msg("Download canceled", <<>>)>> ELSE <<>>)
    ELSE <<>>

RECURSIVE report_all(_, _)
report_all(o, ms) == IF ms = <<>> THEN o ELSE report_all(on_install_error(o, Head(ms)), Tail(ms))

\* download_progress (218-236), then time.sleep and back to the loop test
download_progress ==
    /\ pc = "progress"
    /\ out' = IF downloader.state \in {"CANCELLED", "ERROR"} THEN report_all(out, progress_reports(downloader)) ELSE print_line(out)
    /\ dl' = [dl EXCEPT !.reports = @ \o progress_reports(downloader)]
    /\ pc' = "loop"
    /\ UNCHANGED <<inputs, scripts, install_path, script, verdict, interpreter, cursors, downloader, stack, child, stages, file_reqs, selected, menu_reqs, resumes, dl_count, finished>>

\* lines 240-246: the except clause is entered when the callback raised
callback_raise_ignored(callback) == FALSE

callback_raised(callback) == callback = "raises"

\* lines 212 and 216, on_download_complete 238-249
on_download_complete ==
    /\ pc = "loop"
    /\ ~loop_continues(downloader)
    /\ pc' = "interp"
    /\ IF callback_raised(dl.callback)
       THEN /\ dl' = [dl EXCEPT !.cb_count = @ + 1]
            /\ out' = on_install_error(out, Msg("callback raised", <<>>))
            /\ UNCHANGED <<interpreter, stack>>
       ELSE /\ dl' = [dl EXCEPT !.cb_count = IF dl.callback = "None" THEN @ ELSE @ + 1, !.continued = TRUE]
            /\ interpreter' = [interpreter EXCEPT !.abort_current_task = "None"]
            /\ stack' = Append(stack, "iter_game_files")
            /\ UNCHANGED out
    /\ UNCHANGED <<inputs, scripts, install_path, script, verdict, cursors, downloader, child, stages, file_reqs, selected, menu_reqs, resumes, dl_count, finished>>

\* ------------------------------------------------ the transport
\* The transfer runs beside the polling loop: it advances, completes at
\* progress 1.0, is cancelled or fails with an error text.
Transferring == pc \in {"loop", "progress"} /\ downloader.state = "RUNNING"

TransportAdvances ==
    /\ Transferring
    /\ downloader' = [downloader EXCEPT !.progress = @ + 1, !.state = IF downloader.progress + 1 = Full THEN "COMPLETED" ELSE @]
    /\ UNCHANGED <<inputs, scripts, install_path, script, verdict, interpreter, cursors, out, pc, stack, child, stages, ghosts>>

TransportCancelled ==
    /\ Transferring
    /\ downloader' = [downloader EXCEPT !.state = "CANCELLED"]
    /\ UNCHANGED <<inputs, scripts, install_path, script, verdict, interpreter, cursors, out, pc, stack, child, stages, ghosts>>

TransportFails ==
    /\ Transferring
    /\ downloader' = [downloader EXCEPT !.state = "ERROR", !.error = "disk full"]
    /\ UNCHANGED <<inputs, scripts, install_path, script, verdict, interpreter, cursors, out, pc, stack, child, stages, ghosts>>

\* ------------------------------------------------ specification
Next ==
    \/ ReadLocalScript
    \/ FetchScript
    \/ FetchCallback
    \/ ask_user_for_file
    \/ \E alias \in 1..MaxSteps : input_menu(alias)
    \/ \E callback \in Callbacks : start_download(callback)
    \/ LoopTest
    \/ download_progress
    \/ on_download_complete
    \/ InterpreterFinishes
    \/ InterpreterReturns
    \/ RunnerCheckFails
    \/ TransportAdvances
    \/ TransportCancelled
    \/ TransportFails

Spec == Init /\ [][Next]_vars

\* The same program with an interpreter that may issue one menu request
\* beyond the input_menu steps of the script.
NextUnscripted ==
    \/ Next
    \/ \E alias \in 1..(MaxSteps + 1) : unscripted_input_menu(alias)

SpecUnscripted == Init /\ [][NextUnscripted]_vars

\* ================================================================ claims
Ended == pc \in {"done", "raised"}

Validated == verdict = <<0>>

PendingFileCalls == Cardinality({i \in 1..Len(stack) : stack[i] = "file_selected"})

\* C1: the exit callback (quit_callback) is invoked exactly once per run:
\* never twice or more, and once when the run has ended.
C1_ExitExactlyOnce == out.quit <= 1 /\ (Ended => out.quit = 1)

\* C2: in a validated run the n-th file-selection request hands the
\* interpreter the n-th supplied path, also when the next request is issued
\* from inside file_selected.
C2_NthRequestNthPath == Validated => \A i \in 1..Len(selected) : selected[i].path.name = selected[i].req

\* C3: in a validated run the n-th menu request records the n-th supplied
\* option under that request's alias, and only then resumes the step
\* iteration, also when the next menu request comes from inside the resumed
\* iteration.
C3_NthMenuNthOption ==
    (Validated /\ pc # "raised") =>
        /\ Len(interpreter.user_inputs) = Len(menu_reqs)
        /\ \A n \in 1..Len(menu_reqs) : interpreter.user_inputs[n] = [alias |-> menu_reqs[n], value |-> install_options[n]]
        /\ Len(resumes) = Len(menu_reqs)
        /\ \A n \in 1..Len(resumes) : resumes[n] = [recorded |-> n, cursor |-> n]

\* C3 witness: the second menu request was served inside the first one's
\* resumed iteration, and the two supplied options differ.
C3_Witness ==
    /\ Validated
    /\ Len(menu_reqs) = 2
    /\ Cardinality({i \in 1..Len(stack) : stack[i] = "_iter_commands"}) = 2
    /\ install_options[1] # install_options[2]

CursorsInRange ==
    /\ options_coutner \in 0..Len(install_options)
    /\ bin_path_coutner \in 0..Len(binary_path)

\* one advance per recorded menu answer and per returned file_selected call
CursorsCount ==
    /\ options_coutner = Len(interpreter.user_inputs)
    /\ bin_path_coutner = Len(selected) - PendingFileCalls

CursorsStep ==
    /\ options_coutner' \in {options_coutner, options_coutner + 1}
    /\ bin_path_coutner' \in {bin_path_coutner, bin_path_coutner + 1}
    /\ (options_coutner' = options_coutner + 1) <=> (Len(interpreter'.user_inputs) = Len(interpreter.user_inputs) + 1)
    /\ (bin_path_coutner' = bin_path_coutner + 1) <=> (pc = "interp" /\ stack # <<>> /\ stack[Len(stack)] = "file_selected" /\ Len(stack') = Len(stack) - 1)

\* C4: both cursors stay between 0 and the number of supplied answers, never
\* decrease, advance by exactly one per completed menu request and per
\* successful file-selection request, and nothing else moves them.
C4_Cursors == [](CursorsInRange /\ CursorsCount) /\ [][CursorsStep]_vars

\* C4 witness: two file requests and two menu requests were served and both
\* cursors stand at the end of their lists.
C4_Witness ==
    /\ Validated
    /\ bin_path_coutner = 2 /\ Len(binary_path) = 2
    /\ options_coutner = 2 /\ Len(install_options) = 2

FieldsComplete == MandatoryFields \subseteq script.fields

\* the number of sentinel file requirements of the adopted script
K == NumberOf(script.files.items, "NA")

\* the number of input_menu steps of the adopted script
M == Cardinality({i \in 1..Len(script.installer) : script.installer[i].op = "input_menu"})

Reported(kind) == \E i \in 1..Len(out.errors) : out.errors[i].kind = kind

\* validate_scripts ran and reached the file check
FilesChecked == verdict # <<>> /\ FieldsComplete

FilesPassed == ~Reported("Number of provided files is wrong") /\ ~Reported("File does not exist")

SuppliedFilesFit == Len(binary_path) = K /\ \A i \in 1..Len(binary_path) : binary_path[i].kind # "missing"

CountsCited == \E i \in 1..Len(out.errors) : out.errors[i].kind = "Number of provided files is wrong" /\ out.errors[i].args = <<Len(binary_path), K>>

FileCheckAsClaimed ==
    /\ FilesPassed <=> SuppliedFilesFit
    /\ Len(binary_path) \in {K - 1, K + 1} => CountsCited

\* C5 as stated: for every k >= 0 the file check passes iff exactly k paths
\* are supplied and all exist; k-1 or k+1 paths fail citing both counts.
C5_AsStated == FilesChecked => FileCheckAsClaimed

\* C5 amended: the same for every k >= 1; a script with no sentinel file
\* requirement passes the file check whatever paths are supplied.
C5_FileCheck == FilesChecked => IF K >= 1 THEN FileCheckAsClaimed ELSE FilesPassed

\* C5 witness: two sentinel requirements, two existing paths, check passed.
C5_Witness == FilesChecked /\ K = 2 /\ Len(binary_path) = 2 /\ FilesPassed

\* validate_scripts reached the menu check
MenusChecked == FilesChecked /\ FilesPassed

OfferedBy(i) == {script.installer[menu_place(script.installer, i, 1)].options[j] : j \in 1..Len(script.installer[menu_place(script.installer, i, 1)].options)}

AnswersFit == Len(install_options) = M /\ \A i \in 1..M : install_options[i] \in OfferedBy(i)

\* C6 as stated: for every m >= 0 the menu check passes iff exactly m
\* answers are supplied and the i-th is offered by the i-th input_menu step.
C6_AsStated == MenusChecked => (Validated <=> AnswersFit)

\* C6 amended: the same for every m >= 1; a script with no input_menu step
\* passes the menu check whatever answers are supplied.
C6_MenuCheck == MenusChecked => IF M >= 1 THEN (Validated <=> AnswersFit) ELSE Validated

\* C6 witness: two menus, the second answer is offered only by the second.
C6_Witness == MenusChecked /\ M = 2 /\ Validated /\ install_options = <<"a", "b">> /\ OfferedBy(1) = {"a"}

\* C7: a script lacking name, runner or version is reported, validation
\* returns non-zero, and no later stage runs: no interpreter, no target, no
\* runner check, no request served.
C7_InvalidScriptStops ==
    (verdict # <<>> /\ ~FieldsComplete) =>
        /\ verdict = <<-1>>
        /\ Reported("Invalid script") /\ out.quit >= 1
        /\ pc = "done"
        /\ stages = <<"validate_scripts">>
        /\ ~interpreter.made /\ interpreter.target_path = "None"
        /\ stack = <<>>
        /\ ~child.spawned
        /\ file_reqs = 0 /\ menu_reqs = <<>> /\ dl_count = 0 /\ ~finished

C7_Witness == verdict = <<-1>> /\ script.fields = {"name", "runner"} /\ pc = "done"

\* C8: a download that reaches progress 1.0 invokes the completion callback
\* at most once and then tells the interpreter to continue (iter_game_files);
\* a cancelled or failed download never invokes the callback.
C8_DownloadCompletion ==
    /\ dl.cb_count <= 1
    /\ dl.cb_count = 1 => downloader.progress = Full
    /\ dl.continued => (downloader.progress = Full /\ (dl.callback # "None" => dl.cb_count = 1))
    /\ (dl.cb_count = 1 /\ dl.callback = "returns") => dl.continued
    /\ downloader.state \in {"CANCELLED", "ERROR"} => (dl.cb_count = 0 /\ ~dl.continued)

C8_Witness == dl.callback = "returns" /\ dl.cb_count = 1 /\ dl.continued /\ dl.polls = MaxPolls

\* C9: the nested orchestrator spawned for a missing dependency has invoked
\* its exit callback before the parent goes on to select_install_folder.
C9_NestedTerminatesFirst == child.spawned => (child.quit >= 1 /\ child.pc = "done")

\* C10: a cancelled or failed transfer is reported once and no more (one
\* cancellation message, or the transport's error text), however many polls
\* follow.
C10_OneFailureReport ==
    downloader.state \in {"CANCELLED", "ERROR"} =>
        /\ Len(dl.reports) <= 1
        /\ (downloader.state = "ERROR" /\ dl.reports # <<>>) => dl.reports[1].kind = downloader.error

Entered(stage) == \E i \in 1..Len(stages) : stages[i] = stage

\* acquisition yielded no script, or a list of other than one script
AcquisitionFailed == Reported("No install script found") \/ Reported("Please provide single installer")

\* C11: when acquisition yields no script or more than one, the failure is
\* reported and the instance runs no later stage: no script is adopted,
\* validation is not run, no interpreter is constructed.
C11_NoSingleScriptStops ==
    AcquisitionFailed =>
        /\ out.quit >= 1
        /\ script = NoScript
        /\ verdict = <<>>
        /\ ~Entered("validate_scripts")
        /\ ~interpreter.made

\* the exit callback has been invoked
Terminated == out.quit >= 1

\* a step in which the instance does nothing: no call on the interpreter
\* (construction, recorded input, file_selected, _iter_commands,
\* iter_game_files), no poll, no cursor move, no status line
QuietStep ==
    /\ interpreter' = interpreter
    /\ selected' = selected
    /\ Len(stack') <= Len(stack)
    /\ dl'.polls = dl.polls
    /\ bin_path_coutner' = bin_path_coutner
    /\ options_coutner' = options_coutner
    /\ out'.printed = out.printed

\* C12: once the exit callback has been invoked the instance performs no
\* further action: no call on the interpreter, no poll of the transport, no
\* cursor move, no status line.
C12_NothingAfterExit == [][Terminated => QuietStep]_vars

\* a menu request arrives while the menu cursor stands at the end of the
\* supplied options
MenuRequestAtEnd == Len(menu_reqs') = Len(menu_reqs) + 1 /\ options_coutner = Len(install_options)

\* C13: a menu request arriving when the menu cursor equals the number of
\* supplied options fails through the shared failure path: one failure is
\* reported, the exit callback fires, the cursor stays and the step
\* iteration is not resumed.
C13_MenuOverrunFails ==
    [][MenuRequestAtEnd =>
          /\ Len(out'.errors) = Len(out.errors) + 1
          /\ out'.quit = out.quit + 1
          /\ options_coutner' = options_coutner
          /\ resumes' = resumes
          /\ stack' = stack]_vars

\* the stages after acquisition, in the order of the life cycle
StageOrder == <<"validate_scripts", "prepare_install", "ScriptInterpreter", "select_install_folder", "check_runner_install">>

\* the stages entered, without the spawn of the nested install (a part of
\* prepare_install)
OwnStages == SelectSeq(stages, LAMBDA st : st # "UnattendedInstall")

IsPrefix(s, t) == Len(s) <= Len(t) /\ \A i \in 1..Len(s) : s[i] = t[i]

\* the interpreter was asked to execute: a request served or the end told
Executing == file_reqs > 0 \/ menu_reqs # <<>> \/ dl_count > 0 \/ finished

\* C14: the stages are entered in the order of the life cycle, each at most
\* once, none after a failure reported in an earlier stage, and the
\* interpreter is constructed only after validation returned 0.
C14_StagesInOrder ==
    /\ IsPrefix(OwnStages, StageOrder)
    /\ Executing => Entered("check_runner_install")
    /\ AcquisitionFailed => stages = <<>>
    /\ verdict = <<-1>> => stages = <<"validate_scripts">>
    /\ interpreter.made => Validated

\* the interpreter's constructor raised an error other than
\* MissingGameDependency: prepare_install is the last stage entered
ConstructionFailed == stages # <<>> /\ stages[Len(stages)] = "prepare_install"

\* C15: a construction error other than the missing-dependency signal is
\* reported through the shared failure path (status line, error log, exit
\* callback) and the run ends without entering select_install_folder.
C15_ConstructionErrorReported ==
    ConstructionFailed =>
        /\ Reported("ScriptingError")
        /\ out.quit >= 1
        /\ pc = "done"
        /\ ~Entered("select_install_folder")

TerminalStates == {"COMPLETED", "CANCELLED", "ERROR"}

\* C17: start_download returns once the transport is in a terminal state.
\* The transport stays in that state, so every later test of the loop
\* condition gives the same result: the polling stops after finitely many
\* polls iff the loop condition is false when tested in a terminal state.
C17_LoopStopsWhenTerminal == (pc = "loop" /\ downloader.state \in TerminalStates) => ~loop_continues(downloader)

\* a file request arrives and the next unread path is not a regular file
FileRequestNotFile ==
    /\ file_reqs' = file_reqs + 1
    /\ bin_path_coutner < Len(binary_path)
    /\ binary_path[bin_path_coutner + 1].kind # "file"

\* C18: a file request whose next unread path is not a regular file reports
\* one failure naming that path, hands no path to the interpreter (no
\* file_selected call) and leaves both cursors where they are.
C18_NotAFileReported ==
    [][FileRequestNotFile =>
          /\ out'.errors = Append(out.errors, Msg("is not a file", <<binary_path[bin_path_coutner + 1].name>>))
          /\ out'.quit = out.quit + 1
          /\ selected' = selected
          /\ stack' = stack
          /\ bin_path_coutner' = bin_path_coutner
          /\ options_coutner' = options_coutner]_vars

\* C18 witness: the second file request met a directory; only the first
\* path was handed to the interpreter.
C18_Witness ==
    /\ file_reqs = 2
    /\ Len(selected) = 1
    /\ \E i \in 1..Len(out.errors) : out.errors[i].kind = "is not a file" /\ out.errors[i].args = <<2>>
    /\ binary_path[2].kind = "dir"

\* a download completes and its completion callback raises
CallbackRaises == pc = "loop" /\ pc' = "interp" /\ dl.callback = "raises"

\* C19: a completion callback that raises is caught and reported once, and
\* the run ends there: the interpreter's abort marker is not cleared and
\* iter_game_files is not called.
C19_RaisingCallbackEndsRun ==
    [][CallbackRaises =>
          /\ dl'.cb_count = 1
          /\ Len(out'.errors) = Len(out.errors) + 1
          /\ out'.errors[Len(out'.errors)].kind = "callback raised"
          /\ out'.quit = out.quit + 1
          /\ interpreter' = interpreter
          /\ interpreter'.abort_current_task = "task"
          /\ stack' = stack
          /\ ~dl'.continued]_vars

\* C19 witness: the download completed after its polls, the callback raised
\* and was reported; the marker is still set.
C19_Witness ==
    /\ dl.callback = "raises" /\ dl.cb_count = 1 /\ dl.polls >= 1
    /\ downloader.state = "COMPLETED"
    /\ Reported("callback raised")
    /\ interpreter.abort_current_task = "task"
    /\ ~dl.continued

====
